---- MODULE Spec2Model ----
(***************************************************************************)
(* Iterative target augmentation (ita_train.py): the validity filter, the  *)
(* per-example candidate selection, the training buffer protocol, and the  *)
(* gradient-accumulation loop of main(), as a state machine.               *)
(***************************************************************************)
EXTENDS Integers, Sequences, FiniteSets, TLC

VARIABLES
    cfg,            \* args: n_examples = len(dataset), n_tries, n_samples, n_iter,
                    \*       epoch, update_freq, n_batches = len(train_loader)
    pc,             \* position of main() inside the round loop
    r,              \* round index (for r in range(args.n_iter))
    i,              \* example index of the sweep (for i in range(len(dataset)))
    mode,           \* model.eval() / model.train()
    results,        \* the sample tuples of the current example
    aligned,        \* the aligned flag model.infer returned for the current example
    candidate_pool, \* pool of the current example
    sorted_cand_idx,\* pool indices in walking order
    j,              \* number of pool entries the walk has consumed
    broke,          \* the walk left through `break`
    candidates,     \* accepted (and, after padding, padded) list of the current example
    queried,        \* oracle calls made for the current example, in call order
    scores,         \* round-level score list
    stagedRound,    \* update_candidates calls of the current round, in call order
    pending,        \* training buffer: staged area
    active,         \* training buffer: what the train loader reads
    commits,        \* finish_update calls of the current round
    best_round,
    best_score,
    log,            \* lines written to log.txt
    ckpts,          \* checkpoint files written
    e,              \* epoch index of the training loop
    b,              \* micro-batch index inside the epoch
    batch_idx,      \* step counter
    grad_esm,       \* micro-batches accumulated in model.esm's gradients
    grad_mcatt,     \* micro-batches accumulated in model.mc_att's gradients
    steps_esm,      \* optimizer_esm.step() calls of the current round
    steps_mcatt,    \* optimizer_mc_att.step() calls of the current round
    params,         \* number of parameter updates applied to the model so far
    flushLog,       \* flushes of the current round
    genParams,      \* parameter version the current round's sweep sampled with
    vseq,           \* valid_check: the argument
    vres,           \* valid_check: the returned value
    vpc             \* valid_check: "input" before the call, "checked" after

mainVars == <<cfg, pc, r, i, mode, results, aligned, candidate_pool, sorted_cand_idx,
              j, broke, candidates, queried, scores, stagedRound, pending, active,
              commits, best_round, best_score, log, ckpts, e, b, batch_idx,
              grad_esm, grad_mcatt, steps_esm, steps_mcatt, params, flushLog,
              genParams>>
validVars == <<vseq, vres, vpc>>
vars == <<mainVars, validVars>>

(***************************************************************************)
(* Python floats in valid_check.  `charge += 0.1` adds the double nearest  *)
(* to 1/10, and every addition rounds to nearest, ties to even.  A double  *)
(* x that occurs here is a multiple of 2^-55 and is written <<n, d>> with  *)
(*     x = n/10 + d * u,     u = 2^-55 / 5,                                *)
(* so that x / u = n * 2^54 + d, the double 0.1 is <<1, 1>> and an integer *)
(* k is <<10k, 0>>.  In units of u one ulp of [2^k, 2^(k+1)) is 5 * 2^(k+3)*)
(* and the residue of x / u modulo an ulp needs only 2^54 modulo it.       *)
(***************************************************************************)
RECURSIVE Pow2(_)
Pow2(k) == IF k = 0 THEN 1 ELSE 2 * Pow2(k - 1)

\* 2^54 modulo m, as the square of 2^27 modulo m
Pow54Mod(m) == ((134217728 % m) * (134217728 % m)) % m

FZero == <<0, 0>>
FOne == <<10, 0>>
FTenth == <<1, 1>>
FTwo == <<20, 0>>
FNeg(x) == <<0 - x[1], 0 - x[2]>>

\* x >= t2/20 for a positive x = <<n, d>> (t2 is twice the bound in tenths)
FGe(n, d, t2) == 2 * n > t2 \/ (2 * n = t2 /\ d >= 0)

RECURSIVE FUlpExpFrom(_, _, _, _)
FUlpExpFrom(n, d, k, t2) ==
    IF FGe(n, d, t2) THEN FUlpExpFrom(n, d, k + 1, 2 * t2) ELSE k

\* k with ulp = 5 * 2^k units for a positive x; 0 when x < 0.25, where every
\* multiple of 2^-55 is a double and nothing is rounded
FUlpExp(n, d) == IF ~FGe(n, d, 5) THEN 0 ELSE FUlpExpFrom(n, d, 1, 10)

FRoundPos(n, d) ==
    LET k == FUlpExp(n, d)
        U == 5 * Pow2(k)
        c == Pow54Mod(2 * U)
        m2 == (n * c + d) % (2 * U)
        rem == m2 % U
        q == (m2 - rem) \div U
    IN  IF k = 0 THEN <<n, d>>
        ELSE IF 2 * rem < U THEN <<n, d - rem>>
        ELSE IF 2 * rem > U THEN <<n, d + U - rem>>
        ELSE IF q % 2 = 0 THEN <<n, d - rem>>
        ELSE <<n, d + U - rem>>

FRound(x) ==
    IF x[1] < 0 \/ (x[1] = 0 /\ x[2] < 0)
    THEN FNeg(FRoundPos(0 - x[1], 0 - x[2]))
    ELSE FRoundPos(x[1], x[2])

FAdd(x, y) == FRound(<<x[1] + y[1], x[2] + y[2]>>)
FLess(x, y) == x[1] < y[1] \/ (x[1] = y[1] /\ x[2] < y[2])

(***************************************************************************)
(* valid_check(seq)                                                        *)
(***************************************************************************)
ChargeStep(charge, res) ==
    IF res = "R" \/ res = "K" THEN FAdd(charge, FOne)
    ELSE IF res = "H" THEN FAdd(charge, FTenth)
    ELSE IF res = "D" \/ res = "E" THEN FAdd(charge, FNeg(FOne))
    ELSE charge

\* each iteration binds `charge` to a value before the next one starts
RECURSIVE ChargeLoop(_, _, _)
ChargeLoop(seq, k, charge) ==
    IF k > Len(seq) THEN charge
    ELSE LET nxt == ChargeStep(charge, seq[k])
         IN  IF nxt \in Int \X Int THEN ChargeLoop(seq, k + 1, nxt) ELSE nxt

charge_valid(seq) ==
    LET charge == ChargeLoop(seq, 1, FZero)
    IN  ~(FLess(charge, FNeg(FTwo)) \/ FLess(FTwo, charge))

\* for i in range(len(seq) - 2): motif = seq[i:i+3]  (k is i + 1)
RECURSIVE MotifLoop(_, _)
MotifLoop(seq, k) ==
    IF k > Len(seq) - 2 THEN TRUE
    ELSE IF seq[k] = "N" /\ (seq[k + 2] = "S" \/ seq[k + 2] = "T") THEN FALSE
    ELSE MotifLoop(seq, k + 1)

motif_valid(seq) == MotifLoop(seq, 1)

\* longest, previous, cnt = 0, None, 0; the loop state is a record
RECURSIVE RunLoop(_, _, _)
RunLoop(seq, k, st) ==
    IF k > Len(seq) THEN st.longest
    ELSE LET res == seq[k]
             same == st.previous = <<res>>
             cnt == IF same THEN st.cnt + 1 ELSE 1
             lng == IF same /\ cnt > st.longest THEN cnt ELSE st.longest
             nxt == [longest |-> lng, previous |-> <<res>>, cnt |-> cnt]
         IN  IF nxt.cnt >= 1 THEN RunLoop(seq, k + 1, nxt) ELSE 0

longest(seq) == RunLoop(seq, 1, [longest |-> 0, previous |-> <<>>, cnt |-> 0])

seq_valid(seq) == ~(longest(seq) > 5)

valid_check(seq) == motif_valid(seq) /\ charge_valid(seq) /\ seq_valid(seq)


(***************************************************************************)
(* Values of the sweep                                                     *)
(***************************************************************************)
\* origin_cplx[x]
Origin(x) == [kind |-> "origin", ex |-> x, n |-> 0 - 1, seq |-> <<>>, coords |-> "pdb"]

\* set_cdr(origin_cplx[x], seq, coords, ...) written to <id>_<n>.pdb and re-read
Derived(x, entry) ==
    [kind |-> "derived", ex |-> x, n |-> entry.n, seq |-> entry.seq, coords |-> entry.coords]

\* kabsch + np.dot on the sample's coordinates, only when the model says "not aligned"
AlignX(al) == IF al THEN "model" ELSE "kabsch"

\* mutant: a perplexity of exactly 10 is dropped too
PplRejected_AtTen(ppl) == ppl >= 10

PplRejected(ppl) == ppl > 10

\* mutant: no deduplication
AlreadySeen_Never(seq, recorded) == FALSE

AlreadySeen(seq, recorded) == seq \in recorded

\* mutant: a sequence is recorded only when its sample enters the pool
PoolStep_MarkKept(st, n, res, al) ==
    IF AlreadySeen(res.seq, st.recorded) THEN st
    ELSE IF PplRejected(res.ppl) \/ ~valid_check(res.seq) THEN st
    ELSE [recorded |-> st.recorded \cup {res.seq},
          pool |-> Append(st.pool, [ppl |-> res.ppl, seq |-> res.seq,
                                    coords |-> AlignX(al), n |-> n])]

\* one iteration of `for n, (ppl, seq, x, true_x, aligned) in enumerate(results)`
PoolStep(st, n, res, al) ==
    IF AlreadySeen(res.seq, st.recorded) THEN st
    ELSE LET rec2 == st.recorded \cup {res.seq}
         IN  IF PplRejected(res.ppl) THEN [recorded |-> rec2, pool |-> st.pool]
             ELSE IF ~valid_check(res.seq) THEN [recorded |-> rec2, pool |-> st.pool]
             ELSE [recorded |-> rec2,
                   pool |-> Append(st.pool, [ppl |-> res.ppl, seq |-> res.seq,
                                             coords |-> AlignX(al), n |-> n])]

RECURSIVE PoolLoop(_, _, _, _)
PoolLoop(res, k, st, al) ==
    IF k > Len(res) THEN st.pool
    ELSE PoolLoop(res, k + 1, PoolStep(st, k - 1, res[k], al), al)

BuildPool(res, al) == PoolLoop(res, 1, [recorded |-> {}, pool |-> <<>>], al)

\* sorted(range(len(pool)), key=ppl): a stable sort; x goes after every index
\* already placed whose key is <= its own
InsertIdx(lst, x, pool) ==
    LET keep == {p \in 1..Len(lst) : pool[lst[p]].ppl <= pool[x].ppl}
        cut == Cardinality(keep)
    IN  SubSeq(lst, 1, cut) \o <<x>> \o SubSeq(lst, cut + 1, Len(lst))

RECURSIVE SortLoop(_, _, _)
SortLoop(pool, x, lst) ==
    IF x > Len(pool) THEN lst ELSE SortLoop(pool, x + 1, InsertIdx(lst, x, pool))

\* mutant: the pool is walked in sample order
SortedCandIdx_Unsorted(pool) == [k \in 1..Len(pool) |-> k]

SortedCandIdx(pool) == SortLoop(pool, 1, <<>>)

\* mutant: a failed oracle call counts as an improvement
OracleScore_FailAsGain(out) == IF out.ok THEN out.score ELSE 0 - 1

\* try: score = pred_ddg(...)  except: score = 0
OracleScore(out) == IF out.ok THEN out.score ELSE 0

\* mutant: a score of 0 is accepted too
Accepted_NonPositive(score) == score <= 0

Accepted(score) == score < 0

WalkBreaks(cands, n_samples) == Len(cands) >= n_samples

\* while len(candidates) < n_samples: candidates.append((origin, 0)); scores.append(0)
RECURSIVE PadLoop(_, _, _, _)
PadLoop(cands, sc, x, n_samples) ==
    IF Len(cands) < n_samples
    THEN PadLoop(Append(cands, [cplx |-> Origin(x), score |-> 0]), Append(sc, 0), x, n_samples)
    ELSE [candidates |-> cands, scores |-> sc]

\* mutant: the list is staged as accepted, without padding
Pad_NoPadding(cands, sc, x, n_samples) == [candidates |-> cands, scores |-> sc]

\* mutant: padding leaves the round's score list alone
Pad_NoScore(cands, sc, x, n_samples) ==
    [candidates |-> PadLoop(cands, sc, x, n_samples).candidates, scores |-> sc]

Pad(cands, sc, x, n_samples) == PadLoop(cands, sc, x, n_samples)

(***************************************************************************)
(* Round statistics.  A number is an exact fraction in lowest terms, nan   *)
(* (np.mean of an empty list), or the literal 1e10 of the first best_score.*)
(***************************************************************************)
RECURSIVE Gcd(_, _)
Gcd(x, y) == IF y = 0 THEN x ELSE Gcd(y, x % y)

Abs(x) == IF x < 0 THEN 0 - x ELSE x

Frac(num, den) ==
    LET g == Gcd(Abs(num), den)
    IN  [kind |-> "num", num |-> num \div g, den |-> den \div g]

NaN == [kind |-> "nan", num |-> 0, den |-> 1]

\* best_round, best_score = -1, 1e10
BestScoreInit == [kind |-> "1e10", num |-> 0, den |-> 1]

RECURSIVE SumSeq(_, _)
SumSeq(s, k) == IF k > Len(s) THEN 0 ELSE s[k] + SumSeq(s, k + 1)

RECURSIVE SumSq(_, _)
SumSq(s, k) == IF k > Len(s) THEN 0 ELSE s[k] * s[k] + SumSq(s, k + 1)

\* np.mean(scores)
Mean(s) == IF Len(s) = 0 THEN NaN ELSE Frac(SumSeq(s, 1), Len(s))

\* np.std(scores), kept as its square
Std2(s) ==
    IF Len(s) = 0 THEN NaN
    ELSE Frac(Len(s) * SumSq(s, 1) - SumSeq(s, 1) * SumSeq(s, 1), Len(s) * Len(s))

\* x < y on floats: false when either side is nan; every score mean of the model
\* is below 1e10
Less(x, y) ==
    IF x.kind = "nan" \/ y.kind = "nan" THEN FALSE
    ELSE IF x.kind = "1e10" THEN FALSE
    ELSE IF y.kind = "1e10" THEN TRUE
    ELSE x.num * y.den < y.num * x.den

\* mutant: `<=` in place of `<`
Improves_OrEqual(mean_score, best) == Less(mean_score, best) \/ mean_score = best

Improves(mean_score, best) == Less(mean_score, best)

(***************************************************************************)
(* Training buffer (ITAWrapper): staged area and active area               *)
(***************************************************************************)
EmptyBuffer(n_examples) == [x \in 0..(n_examples - 1) |-> [round |-> 0 - 1, cands |-> <<>>]]

update_candidates(pend, x, cands, round) ==
    [pend EXCEPT ![x] = [round |-> round, cands |-> cands]]

finish_update(pend, act) == pend

(***************************************************************************)
(* Gradient accumulation                                                   *)
(***************************************************************************)
\* mutant: the flush comes one micro-batch late
FlushDue_Late(idx, update_freq) == idx % update_freq = 1 % update_freq

\* mutant: every successful micro-batch is flushed at once
FlushDue_Always(idx, update_freq) == TRUE

FlushDue(idx, update_freq) == idx % update_freq = 0

\* mutant: no flush after the loops
TrailingDue_Never(idx, update_freq) == FALSE

TrailingDue(idx, update_freq) == idx % update_freq # 0

LoopDone == e >= cfg.epoch \/ cfg.n_batches = 0


(***************************************************************************)
(* Inputs                                                                  *)
(***************************************************************************)
MaxTries == 3
MaxSamples == 2
MaxGain == 3
MaxLoss == 1
RoundSamples == 2
MaxIter == 2
MaxFreq == 3
MaxBatches == 7
MaxEpoch == 2
MaxBlocks == 4

SeqA == <<"A", "R", "D", "Y">>
SeqB == <<"G", "K", "W">>
SeqBad == <<"N", "G", "T">>

\* what model.infer may return for one sample: (ppl, seq)
Samples == [ppl : {5, 10, 11}, seq : {SeqA, SeqB, SeqBad}]
FewSamples == [ppl : {10, 11}, seq : {SeqA, SeqBad}]
RoundSamplesSet == {[ppl |-> 10, seq |-> SeqA], [ppl |-> 11, seq |-> SeqA]}

\* what pred_ddg may do: return a score, or raise
Raises == [ok |-> FALSE, score |-> 0]
Returns(s) == [ok |-> TRUE, score |-> s]
OracleOutcomes == {Returns(s) : s \in (0 - MaxGain)..MaxLoss} \cup {Raises}
RoundOutcomes == {Returns(0 - 2), Returns(0 - 1), Returns(0), Returns(1), Raises}

Config(n_examples, n_tries, n_samples, n_iter, epoch, update_freq, n_batches) ==
    [n_examples |-> n_examples, n_tries |-> n_tries, n_samples |-> n_samples,
     n_iter |-> n_iter, epoch |-> epoch, update_freq |-> update_freq,
     n_batches |-> n_batches]

(***************************************************************************)
(* main(): state after the setup of lines 157-202                          *)
(***************************************************************************)
ValidIdle == vseq = <<>> /\ vres = FALSE /\ vpc = "off"

InitWith(Cfgs) ==
    /\ cfg \in Cfgs
    /\ pc = "round"
    /\ r = 0
    /\ i = 0
    /\ mode = "train"
    /\ results = <<>>
    /\ aligned = TRUE
    /\ candidate_pool = <<>>
    /\ sorted_cand_idx = <<>>
    /\ j = 0
    /\ broke = FALSE
    /\ candidates = <<>>
    /\ queried = <<>>
    /\ scores = <<>>
    /\ stagedRound = <<>>
    /\ pending = EmptyBuffer(cfg.n_examples)
    /\ active = EmptyBuffer(cfg.n_examples)
    /\ commits = 0
    /\ best_round = 0 - 1
    /\ best_score = BestScoreInit
    /\ log = <<>>
    /\ ckpts = <<>>
    /\ e = 0
    /\ b = 0
    /\ batch_idx = 0
    /\ grad_esm = 0
    /\ grad_mcatt = 0
    /\ steps_esm = 0
    /\ steps_mcatt = 0
    /\ params = 0
    /\ flushLog = <<>>
    /\ genParams = 0
    /\ ValidIdle

sweepLocals == <<results, aligned, candidate_pool, sorted_cand_idx, j, broke,
                 candidates, queried>>
bufferVars == <<pending, active, commits>>
bookVars == <<best_round, best_score, log, ckpts>>
trainVars == <<e, b, batch_idx, grad_esm, grad_mcatt, steps_esm, steps_mcatt,
               params, flushLog>>

(***************************************************************************)
(* main(): one round, lines 204-334                                        *)
(***************************************************************************)
\* lines 204-212: next iteration of `for r in range(args.n_iter)`
StartRound ==
    /\ pc = "round"
    /\ r < cfg.n_iter
    /\ mode' = "eval"
    /\ scores' = <<>>
    /\ i' = 0
    /\ stagedRound' = <<>>
    /\ commits' = 0
    /\ genParams' = params
    /\ pc' = "sweep"
    /\ UNCHANGED <<cfg, r, sweepLocals, pending, active, bookVars, trainVars, validVars>>

\* mutant: a sampling failure falls through to the padding and stages it
InferFail_Pads ==
    /\ pc = "sweep"
    /\ i < cfg.n_examples
    /\ LET padded == Pad(<<>>, scores, i, cfg.n_samples)
       IN  /\ scores' = padded.scores
           /\ stagedRound' = Append(stagedRound, [ex |-> i, cands |-> padded.candidates])
           /\ pending' = update_candidates(pending, i, padded.candidates, r)
           /\ candidates' = padded.candidates
    /\ results' = <<>>
    /\ i' = i + 1
    /\ UNCHANGED <<cfg, pc, r, mode, aligned, candidate_pool, sorted_cand_idx, j, broke,
                   queried, active, commits, bookVars, trainVars, genParams, validVars>>

\* lines 213-223: candidates, results = [], []; model.infer raises, `continue`
InferFail ==
    /\ pc = "sweep"
    /\ i < cfg.n_examples
    /\ candidates' = <<>>
    /\ results' = <<>>
    /\ i' = i + 1
    /\ UNCHANGED <<cfg, pc, r, mode, aligned, candidate_pool, sorted_cand_idx, j, broke,
                   queried, scores, stagedRound, bufferVars, bookVars, trainVars,
                   genParams, validVars>>

\* lines 213-240: model.infer returns; the pool is built and ordered
InferOK(SampleSet, AlignedSet) ==
    /\ pc = "sweep"
    /\ i < cfg.n_examples
    /\ \E res \in [1..cfg.n_tries -> SampleSet], al \in AlignedSet :
          /\ results' = res
          /\ aligned' = al
          /\ candidate_pool' = BuildPool(res, al)
          /\ sorted_cand_idx' = SortedCandIdx(BuildPool(res, al))
    /\ j' = 0
    /\ broke' = FALSE
    /\ candidates' = <<>>
    /\ queried' = <<>>
    /\ pc' = "walk"
    /\ UNCHANGED <<cfg, r, i, mode, scores, stagedRound, bufferVars, bookVars,
                   trainVars, genParams, validVars>>

\* lines 241-259: one iteration of `for j in sorted_cand_idx`
OracleStep(OutcomeSet) ==
    /\ pc = "walk"
    /\ ~broke
    /\ j < Len(sorted_cand_idx)
    /\ \E out \in OutcomeSet :
          LET entry == candidate_pool[sorted_cand_idx[j + 1]]
              score == OracleScore(out)
              cands == IF Accepted(score)
                       THEN Append(candidates, [cplx |-> Derived(i, entry), score |-> score])
                       ELSE candidates
          IN  /\ queried' = Append(queried, [n |-> entry.n, out |-> out])
              /\ candidates' = cands
              /\ scores' = IF Accepted(score) THEN Append(scores, score) ELSE scores
              /\ broke' = WalkBreaks(cands, cfg.n_samples)
    /\ j' = j + 1
    /\ UNCHANGED <<cfg, pc, r, i, mode, results, aligned, candidate_pool,
                   sorted_cand_idx, stagedRound, bufferVars, bookVars, trainVars,
                   genParams, validVars>>

\* mutant: an optimizer step is taken as soon as an example's list is staged
PadAndStage_Steps ==
    /\ pc = "walk"
    /\ broke \/ j = Len(sorted_cand_idx)
    /\ LET padded == Pad(candidates, scores, i, cfg.n_samples)
       IN  /\ scores' = padded.scores
           /\ stagedRound' = Append(stagedRound, [ex |-> i, cands |-> padded.candidates])
           /\ pending' = update_candidates(pending, i, padded.candidates, r)
           /\ candidates' = padded.candidates
    /\ i' = i + 1
    /\ pc' = "sweep"
    /\ params' = params + 1
    /\ UNCHANGED <<cfg, r, mode, results, aligned, candidate_pool, sorted_cand_idx, j,
                   broke, queried, active, commits, bookVars, e, b, batch_idx, grad_esm,
                   grad_mcatt, steps_esm, steps_mcatt, flushLog, genParams, validVars>>

\* lines 260-263: the walk is over; pad, stage, next example
PadAndStage ==
    /\ pc = "walk"
    /\ broke \/ j = Len(sorted_cand_idx)
    /\ LET padded == Pad(candidates, scores, i, cfg.n_samples)
       IN  /\ scores' = padded.scores
           /\ stagedRound' = Append(stagedRound, [ex |-> i, cands |-> padded.candidates])
           /\ pending' = update_candidates(pending, i, padded.candidates, r)
           /\ candidates' = padded.candidates
    /\ i' = i + 1
    /\ pc' = "sweep"
    /\ UNCHANGED <<cfg, r, mode, results, aligned, candidate_pool, sorted_cand_idx, j,
                   broke, queried, active, commits, bookVars, trainVars, genParams,
                   validVars>>

\* line 265: the sweep is over; itawrapper.finish_update().  Nothing reads the
\* sweep's locals again before lines 216 and 225 rebind them.
Commit ==
    /\ pc = "sweep"
    /\ i = cfg.n_examples
    /\ active' = finish_update(pending, active)
    /\ commits' = commits + 1
    /\ pc' = "stats"
    /\ results' = <<>>
    /\ aligned' = TRUE
    /\ candidate_pool' = <<>>
    /\ sorted_cand_idx' = <<>>
    /\ j' = 0
    /\ broke' = FALSE
    /\ candidates' = <<>>
    /\ queried' = <<>>
    /\ UNCHANGED <<cfg, r, i, mode, scores, stagedRound, pending, bookVars, trainVars,
                   genParams, validVars>>

\* lines 266-271: mean, best bookkeeping, log line
Stats ==
    /\ pc = "stats"
    /\ LET mean_score == Mean(scores)
           better == Improves(mean_score, best_score)
           round2 == IF better THEN r - 1 ELSE best_round
           score2 == IF better THEN mean_score ELSE best_score
       IN  /\ best_round' = round2
           /\ best_score' = score2
           /\ log' = Append(log, [iter |-> r - 1, mean |-> mean_score,
                                  std2 |-> Std2(scores), best |-> score2,
                                  at |-> round2])
    /\ pc' = "starttrain"
    /\ UNCHANGED <<cfg, r, i, mode, sweepLocals, scores, stagedRound, bufferVars,
                   ckpts, trainVars, genParams, validVars>>

\* lines 276-294: model.train(), loader, fresh optimizers, batch_idx = 0
StartTraining ==
    /\ pc = "starttrain"
    /\ mode' = "train"
    /\ e' = 0
    /\ b' = 0
    /\ batch_idx' = 0
    /\ steps_esm' = 0
    /\ steps_mcatt' = 0
    /\ flushLog' = <<>>
    /\ pc' = "train"
    /\ UNCHANGED <<cfg, r, i, sweepLocals, scores, stagedRound, bufferVars, bookVars,
                   grad_esm, grad_mcatt, params, genParams, validVars>>

\* the loops of lines 295-296 move on to the next micro-batch
Advance ==
    /\ b' = IF b + 1 < cfg.n_batches THEN b + 1 ELSE 0
    /\ e' = IF b + 1 < cfg.n_batches THEN e ELSE e + 1

\* lines 297-317: the forward pass returns; accumulate, count, flush when due
TrainStepOK ==
    /\ pc = "train"
    /\ ~LoopDone
    /\ Advance
    /\ batch_idx' = batch_idx + 1
    /\ IF FlushDue(batch_idx + 1, cfg.update_freq)
       THEN /\ steps_mcatt' = steps_mcatt + 1
            /\ grad_mcatt' = 0
            /\ steps_esm' = steps_esm + 1
            /\ grad_esm' = 0
            /\ params' = params + 1
            /\ flushLog' = Append(flushLog, [kind |-> "loop", step |-> batch_idx + 1,
                                             esm |-> grad_esm + 1, mcatt |-> grad_mcatt + 1])
       ELSE /\ grad_esm' = grad_esm + 1
            /\ grad_mcatt' = grad_mcatt + 1
            /\ UNCHANGED <<steps_esm, steps_mcatt, params, flushLog>>
    /\ UNCHANGED <<cfg, pc, r, i, mode, sweepLocals, scores, stagedRound, bufferVars,
                   bookVars, genParams, validVars>>

\* mutant: a failed forward pass still counts as a step, and flushes when due
TrainStepFail_Counts ==
    /\ pc = "train"
    /\ ~LoopDone
    /\ Advance
    /\ batch_idx' = batch_idx + 1
    /\ IF FlushDue(batch_idx + 1, cfg.update_freq)
       THEN /\ steps_mcatt' = steps_mcatt + 1
            /\ grad_mcatt' = 0
            /\ steps_esm' = steps_esm + 1
            /\ grad_esm' = 0
            /\ params' = params + 1
            /\ flushLog' = Append(flushLog, [kind |-> "loop", step |-> batch_idx + 1,
                                             esm |-> grad_esm, mcatt |-> grad_mcatt])
       ELSE UNCHANGED <<grad_esm, grad_mcatt, steps_esm, steps_mcatt, params, flushLog>>
    /\ UNCHANGED <<cfg, pc, r, i, mode, sweepLocals, scores, stagedRound, bufferVars,
                   bookVars, genParams, validVars>>

\* lines 299-303: the forward pass raises, `continue`
TrainStepFail ==
    /\ pc = "train"
    /\ ~LoopDone
    /\ Advance
    /\ UNCHANGED <<cfg, pc, r, i, mode, sweepLocals, scores, stagedRound, bufferVars,
                   bookVars, batch_idx, grad_esm, grad_mcatt, steps_esm, steps_mcatt,
                   params, flushLog, genParams, validVars>>

\* lines 319-325: the loops are over with a remainder
TrailingFlush ==
    /\ pc = "train"
    /\ LoopDone
    /\ TrailingDue(batch_idx, cfg.update_freq)
    /\ steps_mcatt' = steps_mcatt + 1
    /\ grad_mcatt' = 0
    /\ steps_esm' = steps_esm + 1
    /\ grad_esm' = 0
    /\ params' = params + 1
    /\ flushLog' = Append(flushLog, [kind |-> "trail", step |-> batch_idx,
                                     esm |-> grad_esm, mcatt |-> grad_mcatt])
    /\ pc' = "save"
    /\ UNCHANGED <<cfg, r, i, mode, sweepLocals, scores, stagedRound, bufferVars,
                   bookVars, e, b, batch_idx, genParams, validVars>>

\* line 319: the loops are over with no remainder
NoTrailingFlush ==
    /\ pc = "train"
    /\ LoopDone
    /\ ~TrailingDue(batch_idx, cfg.update_freq)
    /\ pc' = "save"
    /\ UNCHANGED <<cfg, r, i, mode, sweepLocals, scores, stagedRound, bufferVars,
                   bookVars, trainVars, genParams, validVars>>

\* mutant: the files carry the tag the log line uses, r - 1
CkptPair_LogTag(round, p) ==
    <<[file |-> "mcatt", iter |-> round - 1, params |-> p],
      [file |-> "esm", iter |-> round - 1, params |-> p]>>

\* lines 331-332: mcatt_iter_{r}.ckpt, then esm_iter_{r}.ckpt
CkptPair(round, p) ==
    <<[file |-> "mcatt", iter |-> round, params |-> p],
      [file |-> "esm", iter |-> round, params |-> p]>>

\* lines 329-334: both checkpoints; the round is over (log.close() after the last).
\* batch_idx and the optimizers are rebound (lines 283-294) before the next read.
Checkpoint ==
    /\ pc = "save"
    /\ ckpts' = ckpts \o CkptPair(r, params)
    /\ r' = r + 1
    /\ pc' = IF r + 1 < cfg.n_iter THEN "round" ELSE "done"
    /\ e' = 0
    /\ b' = 0
    /\ batch_idx' = 0
    /\ steps_esm' = 0
    /\ steps_mcatt' = 0
    /\ flushLog' = <<>>
    /\ UNCHANGED <<cfg, i, mode, sweepLocals, scores, stagedRound, bufferVars,
                   best_round, best_score, log, grad_esm, grad_mcatt, params,
                   genParams, validVars>>

NextWith(SampleSet, AlignedSet, OutcomeSet) ==
    \/ StartRound
    \/ InferFail
    \/ InferOK(SampleSet, AlignedSet)
    \/ OracleStep(OutcomeSet)
    \/ PadAndStage
    \/ Commit
    \/ Stats
    \/ StartTraining
    \/ TrainStepOK
    \/ TrainStepFail
    \/ TrailingFlush
    \/ NoTrailingFlush
    \/ Checkpoint

\* several rounds over two examples
RoundConfigs ==
    {Config(2, 1, ns, ni, 1, uf, 2) :
        ns \in 1..RoundSamples, ni \in 1..MaxIter, uf \in 1..2}

Init == InitWith(RoundConfigs)
Next == NextWith(RoundSamplesSet, {FALSE}, RoundOutcomes)
Spec == Init /\ [][Next]_vars

\* the interpreter always executes the next statement of main()
FairSpec == Spec /\ WF_vars(Next)


\* one example, one round: the selection on every sample set up to MaxTries
SelectConfigs ==
    {Config(1, nt, ns, 1, 1, uf, 1) : nt \in 0..MaxTries, ns \in 1..MaxSamples, uf \in 1..2}

InitSelect == InitWith(SelectConfigs)
NextSelect == NextWith(Samples, BOOLEAN, OracleOutcomes)
SpecSelect == InitSelect /\ [][NextSelect]_vars

\* the end-to-end scenario's sizes: one example, n_tries = 5, n_samples = 2
E2EConfigs == {Config(1, 5, 2, 1, 1, uf, 1) : uf \in 1..2}

InitE2E == InitWith(E2EConfigs)
NextE2E == NextWith(FewSamples, BOOLEAN, OracleOutcomes)
SpecE2E == InitE2E /\ [][NextE2E]_vars

\* the training loop on every update_freq, epoch count and loader length
TrainConfigs ==
    {Config(1, 1, 1, ni, ep, uf, nb) :
        ni \in 1..2, ep \in 1..MaxEpoch, uf \in 1..MaxFreq, nb \in 0..MaxBatches}

InitTrain == InitWith(TrainConfigs)
NextTrain == NextWith(RoundSamplesSet, {TRUE}, RoundOutcomes)
SpecTrain == InitTrain /\ [][NextTrain]_vars

(***************************************************************************)
(* valid_check on its own                                                  *)
(***************************************************************************)
Blocks ==
    {<<>>, <<"R">>, <<"K">>, <<"H">>, <<"D">>, <<"E">>, <<"N">>, <<"S">>, <<"T">>, <<"A">>,
     <<"H", "H", "H", "H", "H">>, <<"A", "A", "A", "A", "A">>}

RECURSIVE BlockSeqs(_)
BlockSeqs(k) == IF k = 0 THEN {<<>>} ELSE {blk \o s : blk \in Blocks, s \in BlockSeqs(k - 1)}

MainIdle ==
    /\ cfg = Config(0, 0, 1, 0, 0, 1, 0)
    /\ pc = "off"
    /\ r = 0 /\ i = 0 /\ mode = "train"
    /\ results = <<>> /\ aligned = TRUE /\ candidate_pool = <<>>
    /\ sorted_cand_idx = <<>> /\ j = 0 /\ broke = FALSE
    /\ candidates = <<>> /\ queried = <<>> /\ scores = <<>> /\ stagedRound = <<>>
    /\ pending = <<>> /\ active = <<>> /\ commits = 0
    /\ best_round = 0 - 1 /\ best_score = BestScoreInit
    /\ log = <<>> /\ ckpts = <<>>
    /\ e = 0 /\ b = 0 /\ batch_idx = 0 /\ grad_esm = 0 /\ grad_mcatt = 0
    /\ steps_esm = 0 /\ steps_mcatt = 0 /\ params = 0 /\ flushLog = <<>>
    /\ genParams = 0

InitValid ==
    /\ MainIdle
    /\ vseq \in BlockSeqs(MaxBlocks)
    /\ vres = FALSE
    /\ vpc = "input"

\* line 233: valid_check(seq) is called and returns
CallValidCheck ==
    /\ vpc = "input"
    /\ vres' = valid_check(vseq)
    /\ vpc' = "checked"
    /\ UNCHANGED <<mainVars, vseq>>

NextValid == CallValidCheck
SpecValid == InitValid /\ [][NextValid]_vars


(***************************************************************************)
(* Properties                                                              *)
(***************************************************************************)
RECURSIVE FlattenStaged(_, _)
FlattenStaged(st, k) == IF k > Len(st) THEN <<>> ELSE st[k].cands \o FlattenStaged(st, k + 1)

\* every candidate entry of the current round so far, in the order of the sweep
RoundEntries ==
    IF pc = "walk" THEN FlattenStaged(stagedRound, 1) \o candidates
    ELSE FlattenStaged(stagedRound, 1)

ScoresOf(entries) == [k \in 1..Len(entries) |-> entries[k].score]

AcceptedOf(entries) == SelectSeq(entries, LAMBDA en : en.cplx.kind = "derived")

\* C1: every candidate list handed to update_candidates has exactly n_samples
\* entries, whatever number of candidates was accepted.
C1_StagedLength ==
    \A k \in 1..Len(stagedRound) : Len(stagedRound[k].cands) = cfg.n_samples

\* one accepted candidate out of three samples, one padding entry
C1_Witness ==
    /\ cfg.n_tries = 3 /\ cfg.n_samples = 2
    /\ Len(stagedRound) = 1
    /\ Len(queried) = 2 /\ ~queried[1].out.ok
    /\ stagedRound[1].cands[1].cplx.kind = "derived"
    /\ stagedRound[1].cands[2].cplx.kind = "origin"

AfterCommit == pc \in {"stats", "starttrain", "train", "save"}

\* C2: after the commit of a round every example has exactly n_samples entries
\* in the buffer, all staged during that round.
C2_BufferComplete ==
    AfterCommit =>
        \A x \in 0..(cfg.n_examples - 1) :
            active[x].round = r /\ Len(active[x].cands) = cfg.n_samples

\* C3: staging leaves what training reads unchanged until the commit; the commit
\* happens once per round, after the sweep and before training; training never
\* reads a buffer in which only some examples carry the current sweep's candidates.
C3_TwoPhase ==
    /\ pc \in {"sweep", "walk"} => \A x \in 0..(cfg.n_examples - 1) : active[x].round # r
    /\ pc \in {"stats", "starttrain"} => commits = 1 /\ i = cfg.n_examples
    /\ pc = "train" =>
          /\ commits = 1
          /\ \A x \in 0..(cfg.n_examples - 1) : active[x].round = r

LoopFlushes == SelectSeq(flushLog, LAMBDA f : f.kind = "loop")
TrailFlushes == SelectSeq(flushLog, LAMBDA f : f.kind = "trail")

\* update_freq = 3, one epoch of 7 micro-batches, every forward pass succeeded,
\* the training of the round is over
C4_Scenario ==
    /\ cfg.update_freq = 3 /\ cfg.n_batches = 7 /\ cfg.epoch = 1
    /\ pc = "save"
    /\ batch_idx = 7

\* C4 as stated: 3 flushes during the epoch loop and 1 trailing flush.
C4_ThreeLoopFlushes ==
    C4_Scenario => Len(LoopFlushes) = 3 /\ Len(TrailFlushes) = 1

\* C4 amended: 2 flushes during the epoch loop, at micro-batches 3 and 6, then
\* 1 trailing flush for the remainder of 1: 3 flushes in all.
C4_TwoLoopFlushes ==
    C4_Scenario =>
        /\ Len(flushLog) = 3
        /\ flushLog[1].kind = "loop" /\ flushLog[1].step = 3
        /\ flushLog[2].kind = "loop" /\ flushLog[2].step = 6
        /\ flushLog[3].kind = "trail" /\ flushLog[3].step = 7 /\ flushLog[3].esm = 1

C4_Witness == C4_Scenario

RECURSIVE AppliedEsm(_, _)
AppliedEsm(fl, k) == IF k > Len(fl) THEN 0 ELSE fl[k].esm + AppliedEsm(fl, k + 1)

RECURSIVE AppliedMcatt(_, _)
AppliedMcatt(fl, k) == IF k > Len(fl) THEN 0 ELSE fl[k].mcatt + AppliedMcatt(fl, k + 1)

\* C5: when the training loop ends with a remainder, exactly one final flush is
\* made, before the round's checkpoint; at the checkpoint every micro-batch's
\* gradient has been applied and both accumulators are zero.
C5_TrailingFlush ==
    pc = "save" =>
        /\ Len(TrailFlushes) = (IF batch_idx % cfg.update_freq # 0 THEN 1 ELSE 0)
        /\ Len(TrailFlushes) = 1 => flushLog[Len(flushLog)].kind = "trail"
        /\ Len(ckpts) = 2 * r
        /\ grad_esm = 0 /\ grad_mcatt = 0
        /\ AppliedEsm(flushLog, 1) = batch_idx
        /\ AppliedMcatt(flushLog, 1) = batch_idx

\* two epochs, some forward passes failed, a remainder of 2 flushed at the end
C5_Witness ==
    /\ pc = "save"
    /\ cfg.epoch = 2 /\ cfg.update_freq = 3 /\ cfg.n_batches = 4
    /\ batch_idx = 5
    /\ Len(TrailFlushes) = 1

\* the scenario's oracle: the score of the candidate made from sample n
ScenarioScores == <<0 - 1, 0 - 2, 0, 0 - 3, 0 - 1>>

\* the example of the scenario has been processed: 5 identical valid sequences of
\* perplexity <= 10, and every oracle answer is the scenario's
C6_Scenario ==
    /\ cfg.n_examples = 1 /\ cfg.n_tries = 5 /\ cfg.n_samples = 2
    /\ pc = "sweep" /\ Len(stagedRound) = 1
    /\ Len(results) = 5
    /\ \A k \in 1..5 : results[k].seq = results[1].seq /\ results[k].ppl <= 10
    /\ valid_check(results[1].seq)
    /\ \A k \in 1..Len(queried) :
          queried[k].out.ok /\ queried[k].out.score = ScenarioScores[queried[k].n + 1]

\* C6 as stated: the list holds exactly 2 accepted candidates with strictly
\* negative scores and no padding entry.
C6_TwoAccepted ==
    C6_Scenario =>
        /\ Len(stagedRound[1].cands) = 2
        /\ \A k \in 1..2 : /\ stagedRound[1].cands[k].cplx.kind = "derived"
                           /\ stagedRound[1].cands[k].score < 0

\* C6 amended: the four later copies are deduplicated, the oracle is asked once
\* (sample 0, score -1), and the list is that candidate followed by one padding
\* entry, the original with score 0.
C6_OneAcceptedOnePadding ==
    C6_Scenario =>
        /\ Len(candidate_pool) = 1 /\ candidate_pool[1].n = 0
        /\ Len(queried) = 1 /\ queried[1].n = 0
        /\ stagedRound[1].cands =
              <<[cplx |-> Derived(0, candidate_pool[1]), score |-> 0 - 1],
                [cplx |-> Origin(0), score |-> 0]>>

C6_Witness == C6_Scenario

\* C7 as stated: the round's score list holds exactly the scores of the accepted
\* candidates, all strictly negative; padding adds nothing to it.
C7_AcceptedScoresOnly ==
    /\ scores = ScoresOf(AcceptedOf(RoundEntries))
    /\ \A k \in 1..Len(scores) : scores[k] < 0

\* C7 amended: the round's score list holds, in sweep order, the score of every
\* candidate entry of the round: the strictly negative score of each accepted
\* candidate and a 0 for each padding entry.
C7_ScoresWithPadding ==
    pc \in {"sweep", "walk", "stats"} =>
        /\ scores = ScoresOf(RoundEntries)
        /\ \A k \in 1..Len(scores) :
              /\ scores[k] <= 0
              /\ scores[k] = 0 <=> RoundEntries[k].cplx.kind = "origin"

\* the statistics are about to be computed over a padding 0 and an accepted score
C7_Witness ==
    /\ pc = "stats"
    /\ \E k \in 1..Len(scores) : scores[k] = 0
    /\ \E k \in 1..Len(scores) : scores[k] < 0

\* C8: best_score never increases; best_score and best_round change only in the
\* statistics step of a round whose mean is strictly below best_score, and then
\* best_score becomes that mean (an empty score list changes neither).
C8_BestMonotone ==
    [][/\ ~Less(best_score, best_score')
       /\ (best_score' # best_score \/ best_round' # best_round) =>
              /\ pc = "stats"
              /\ Less(Mean(scores), best_score)
              /\ best_score' = Mean(scores)
              /\ best_round' = r - 1
       /\ (pc = "stats" /\ Less(Mean(scores), best_score)) => best_score' = Mean(scores)
       /\ (pc = "stats" /\ Len(scores) = 0) =>
              best_score' = best_score /\ best_round' = best_round]_vars

\* the second round's mean was strictly better than the first round's
C8_Witness ==
    /\ Len(log) = 2
    /\ log[1].mean.kind = "num" /\ log[1].best = log[1].mean
    /\ log[2].best = log[2].mean /\ log[2].at = 0
    /\ best_round = 0 /\ best_score = log[2].mean

SeqCount(res, s) == Cardinality({k \in 1..Len(res) : res[k].seq = s})
FirstIndex(res, s) == CHOOSE k \in 1..Len(res) :
                        res[k].seq = s /\ \A m \in 1..(k - 1) : res[m].seq # s

\* C9: the pool never holds a sequence twice; a pool entry is the first sample
\* with its sequence (a later copy never enters, also when the first was
\* rejected); a sequence that occurs k times leaves at most n_tries - k + 1 entries.
C9_Dedup ==
    pc = "walk" =>
        /\ \A x, y \in 1..Len(candidate_pool) :
              x # y => candidate_pool[x].seq # candidate_pool[y].seq
        /\ \A x \in 1..Len(candidate_pool) :
              candidate_pool[x].n + 1 = FirstIndex(results, candidate_pool[x].seq)
        /\ \A k \in 1..Len(results) :
              Len(candidate_pool) <= cfg.n_tries - SeqCount(results, results[k].seq) + 1

\* a valid sequence comes first with perplexity 11 and again with perplexity 5;
\* another sequence is in the pool
C9_Witness ==
    /\ pc = "walk"
    /\ Len(results) = 3
    /\ results[1].seq = SeqA /\ results[1].ppl = 11
    /\ results[2].seq = SeqA /\ results[2].ppl = 5
    /\ results[3].seq = SeqB
    /\ Len(candidate_pool) = 1

NetCharge10(seq) ==
    10 * Cardinality({k \in 1..Len(seq) : seq[k] \in {"R", "K"}})
    + Cardinality({k \in 1..Len(seq) : seq[k] = "H"})
    - 10 * Cardinality({k \in 1..Len(seq) : seq[k] \in {"D", "E"}})

ChargeInRange(seq) == NetCharge10(seq) >= 0 - 20 /\ NetCharge10(seq) <= 20

HasMotif(seq) == \E k \in 1..(Len(seq) - 2) : seq[k] = "N" /\ seq[k + 2] \in {"S", "T"}

HasLongRun(seq) == \E k \in 1..(Len(seq) - 5) : \A m \in 1..5 : seq[k + m] = seq[k]

\* C10: valid_check(seq) is true exactly when the net charge lies in [-2.0, 2.0],
\* no 3-residue window starts with N and ends with S or T, and no residue
\* repeats consecutively more than 5 times.
C10_ValidCheckExact ==
    vpc = "checked" =>
        (vres <=> (ChargeInRange(vseq) /\ ~HasMotif(vseq) /\ ~HasLongRun(vseq)))

AfterLog == pc \in {"starttrain", "train", "save"}

\* what the run has produced when it stands at round r
RoundBookkeeping ==
    /\ r <= cfg.n_iter
    /\ (pc = "done") => (r = cfg.n_iter)
    /\ commits = (IF pc \in {"sweep", "walk"} \/ (pc = "round" /\ r = 0) THEN 0 ELSE 1)
    /\ Len(log) = (IF AfterLog THEN r + 1 ELSE r)
    /\ Len(ckpts) = 2 * r
    /\ \A k \in 0..(r - 1) :
          /\ ckpts[2 * k + 1].file = "mcatt" /\ ckpts[2 * k + 1].iter = k
          /\ ckpts[2 * k + 2].file = "esm" /\ ckpts[2 * k + 2].iter = k

\* C11: whatever sampling, oracle and forward-pass failures occur, the run ends
\* after exactly n_iter rounds, and every round makes one commit, writes one log
\* line and one checkpoint pair (mcatt, esm) tagged with the round's index.
C11_RunCompletes ==
    /\ []RoundBookkeeping
    /\ <>(pc = "done" /\ r = cfg.n_iter)

\* a finished two-round run in which every forward pass failed and, in the last
\* round, sampling failed for every example
C11_Witness ==
    /\ pc = "done"
    /\ cfg.n_iter = 2
    /\ scores = <<>>
    /\ params = 0
    /\ Len(log) = 2 /\ log[1].mean.kind = "num" /\ log[2].mean.kind = "nan"
    /\ Len(ckpts) = 4

\* the step of the sweep in which model.infer raised: the sweep goes from one
\* example to the next without walking a pool
SamplingFailed == pc = "sweep" /\ pc' = "sweep" /\ i' # i

\* C12: when model.infer raises for example i the example is skipped: no pool is
\* built, the oracle is not called, the round's score list and the staged
\* candidates stay as they are, and the sweep goes on with example i + 1.
C12_SamplingFailureSkips ==
    [][SamplingFailed =>
          /\ i' = i + 1
          /\ candidate_pool' = candidate_pool
          /\ sorted_cand_idx' = sorted_cand_idx
          /\ queried' = queried
          /\ scores' = scores
          /\ stagedRound' = stagedRound
          /\ pending' = pending
          /\ results' = <<>>
          /\ candidates' = <<>>]_vars

\* sampling failed for example 0 and the sweep went on: example 1 is the only
\* one staged, and the only one with scores
C12_Witness ==
    /\ pc = "sweep"
    /\ i = 2
    /\ Len(stagedRound) = 1
    /\ stagedRound[1].ex = 1
    /\ Len(scores) = cfg.n_samples
    /\ pending[0].round # r
    /\ pending[1].round = r

\* the step of the walk in which pred_ddg raised
OracleRaised ==
    /\ pc = "walk"
    /\ Len(queried') = Len(queried) + 1
    /\ ~queried'[Len(queried')].out.ok

\* no accepted candidate comes from a pool entry whose oracle call raised
NoFailedAccepted ==
    \A q \in 1..Len(queried) :
        ~queried[q].out.ok =>
            \A c \in 1..Len(candidates) : candidates[c].cplx.n # queried[q].n

\* C13: when pred_ddg raises for a candidate its score is 0, so it is not accepted
\* and adds nothing to the accepted list or the scores; the walk goes on with the
\* next pool entry in perplexity order and the round is not aborted.
C13_OracleFailureNeutral ==
    /\ [](pc = "walk" => NoFailedAccepted)
    /\ [][OracleRaised =>
             /\ candidates' = candidates
             /\ scores' = scores
             /\ pc' = "walk"
             /\ ~broke'
             /\ j' = j + 1
             /\ sorted_cand_idx' = sorted_cand_idx
             /\ r' = r /\ i' = i]_vars

\* the oracle raised for the first pool entry, and the walk went on to accept
\* the second
C13_Witness ==
    /\ pc = "walk"
    /\ Len(queried) = 2
    /\ ~queried[1].out.ok
    /\ queried[2].out.ok /\ queried[2].out.score < 0
    /\ Len(candidates) = 1
    /\ candidates[1].cplx.n = queried[2].n
    /\ scores = <<queried[2].out.score>>

\* micro-batches the loops of lines 295-296 have taken from the loader this round
Consumed == e * cfg.n_batches + b

\* inside the loops the training state is determined by the successful
\* micro-batches alone
CountsSuccessesOnly ==
    /\ batch_idx <= Consumed
    /\ grad_esm = batch_idx % cfg.update_freq
    /\ grad_mcatt = batch_idx % cfg.update_freq
    /\ steps_esm = batch_idx \div cfg.update_freq
    /\ steps_mcatt = batch_idx \div cfg.update_freq
    /\ Len(flushLog) = batch_idx \div cfg.update_freq
    /\ \A k \in 1..Len(flushLog) :
          /\ flushLog[k].esm = cfg.update_freq
          /\ flushLog[k].mcatt = cfg.update_freq

\* a micro-batch was taken and the step counter stayed: the forward pass raised
ForwardRaised ==
    /\ pc = "train" /\ pc' = "train"
    /\ batch_idx' = batch_idx
    /\ <<e, b>>' # <<e, b>>

\* C14: a micro-batch whose forward pass raises is skipped without effect: no
\* gradient is accumulated for either group, the step counter stays, no flush
\* happens, and the loop goes on with the next micro-batch.
C14_ForwardFailureNoEffect ==
    /\ [](pc = "train" => CountsSuccessesOnly)
    /\ [][ForwardRaised =>
             /\ UNCHANGED <<grad_esm, grad_mcatt, steps_esm, steps_mcatt, params, flushLog>>
             /\ Consumed' = Consumed + 1]_vars

\* three micro-batches taken, one of them failed: two steps counted, two
\* contributions accumulated, no flush yet
C14_Witness ==
    /\ pc = "train"
    /\ cfg.update_freq = 3
    /\ Consumed = 3
    /\ batch_idx = 2
    /\ grad_esm = 2 /\ grad_mcatt = 2
    /\ flushLog = <<>>

\* perplexity of the sample with index n of the current example
PplOf(n) == results[n + 1].ppl

\* sample n comes before sample m in the walking order
Before(n, m) == PplOf(n) < PplOf(m) \/ (PplOf(n) = PplOf(m) /\ n < m)

PoolIndices == {candidate_pool[k].n : k \in 1..Len(candidate_pool)}

Improving(q) == q.out.ok /\ q.out.score < 0

\* the queries of the current example that returned a strictly negative score
RECURSIVE ImprovingOf(_, _)
ImprovingOf(qs, k) ==
    IF k > Len(qs) THEN <<>>
    ELSE IF Improving(qs[k]) THEN <<qs[k]>> \o ImprovingOf(qs, k + 1)
    ELSE ImprovingOf(qs, k + 1)

WalkOver == pc = "walk" /\ (broke \/ j = Len(sorted_cand_idx))

\* C15: the oracle is queried on pool entries in non-decreasing perplexity order,
\* ties in sample order, each entry at most once and none after n_samples
\* candidates are accepted; the accepted candidates are the first
\* min(n_samples, number of improving entries) improving entries in that order.
C15_WalkOrder ==
    pc = "walk" =>
        /\ \A q \in 1..Len(queried) : queried[q].n \in PoolIndices
        /\ \A q \in 1..(Len(queried) - 1) : Before(queried[q].n, queried[q + 1].n)
        /\ \A q \in 1..Len(queried) : \A n \in PoolIndices :
              Before(n, queried[q].n) => \E p \in 1..(q - 1) : queried[p].n = n
        /\ \A q \in 1..Len(queried) :
              Len(ImprovingOf(SubSeq(queried, 1, q - 1), 1)) < cfg.n_samples
        /\ LET imp == ImprovingOf(queried, 1)
           IN  /\ Len(candidates) = Len(imp)
               /\ \A c \in 1..Len(imp) :
                     /\ candidates[c].cplx.kind = "derived"
                     /\ candidates[c].cplx.n = imp[c].n
                     /\ candidates[c].score = imp[c].out.score
        /\ WalkOver =>
              \/ Len(candidates) = cfg.n_samples
              \/ /\ Len(queried) = Len(candidate_pool)
                 /\ Len(candidates) < cfg.n_samples

\* the second sample has the lower perplexity, is queried first and accepted;
\* with n_samples = 1 the walk ends without querying the first sample
C15_Witness ==
    /\ pc = "walk"
    /\ cfg.n_samples = 1
    /\ Len(candidate_pool) = 2
    /\ PplOf(1) < PplOf(0)
    /\ broke
    /\ Len(queried) = 1
    /\ queried[1].n = 1
    /\ Len(candidates) = 1

\* sample n (0-based) is the first of the current example with its sequence
FirstOccurrence(n) == \A m \in 1..n : results[m].seq # results[n + 1].seq

\* the sample indices the pool has to hold
Eligible ==
    {n \in 0..(Len(results) - 1) :
        /\ FirstOccurrence(n)
        /\ results[n + 1].ppl <= 10
        /\ valid_check(results[n + 1].seq)}

\* C16: the pool holds exactly the samples that are the first occurrence of their
\* sequence, have perplexity <= 10 and pass valid_check, in sample order, each
\* with its own perplexity, sequence and sample index; the coordinates are
\* realigned only when the model reported the output as not aligned.
C16_PoolContents ==
    pc = "walk" =>
        /\ PoolIndices = Eligible
        /\ Len(candidate_pool) = Cardinality(Eligible)
        /\ \A x \in 1..(Len(candidate_pool) - 1) :
              candidate_pool[x].n < candidate_pool[x + 1].n
        /\ \A x \in 1..Len(candidate_pool) :
              /\ candidate_pool[x].ppl = results[candidate_pool[x].n + 1].ppl
              /\ candidate_pool[x].seq = results[candidate_pool[x].n + 1].seq
              /\ candidate_pool[x].coords = (IF aligned THEN "model" ELSE "kabsch")

\* perplexity 11 dropped, an invalid sequence dropped, perplexity 10 kept with
\* sample index 2 and realigned coordinates
C16_Witness ==
    /\ pc = "walk"
    /\ ~aligned
    /\ Len(results) = 3
    /\ results[1].ppl = 11 /\ results[1].seq = SeqA
    /\ results[2].ppl = 5 /\ results[2].seq = SeqBad
    /\ results[3].ppl = 10 /\ results[3].seq = SeqB
    /\ Len(candidate_pool) = 1
    /\ candidate_pool[1].n = 2
    /\ candidate_pool[1].coords = "kabsch"

IsAcceptedEntry(c, x) == c.cplx.kind = "derived" /\ c.cplx.ex = x /\ c.score < 0

IsPaddingEntry(c, x) == c.cplx = Origin(x) /\ c.score = 0

\* accepted entries first, then padding only
ListShape(cands, x) ==
    \E k \in 0..Len(cands) :
        /\ \A c \in 1..k : IsAcceptedEntry(cands[c], x)
        /\ \A c \in (k + 1)..Len(cands) : IsPaddingEntry(cands[c], x)

\* the list staged last belongs to the example whose walk just ended
JustStaged ==
    /\ pc = "sweep"
    /\ Len(stagedRound) > 0
    /\ stagedRound[Len(stagedRound)].ex = i - 1

\* C17: a staged candidate list is a run of accepted entries (derived complex,
\* strictly negative score) in the order of acceptance, followed only by padding
\* entries (the unmodified original example, score 0).
C17_StagedShape ==
    /\ \A s \in 1..Len(stagedRound) : ListShape(stagedRound[s].cands, stagedRound[s].ex)
    /\ JustStaged =>
          LET imp == ImprovingOf(queried, 1)
              cands == stagedRound[Len(stagedRound)].cands
          IN  /\ Len(imp) <= Len(cands)
              /\ \A c \in 1..Len(imp) :
                    /\ cands[c].cplx.n = imp[c].n
                    /\ cands[c].score = imp[c].out.score
              /\ \A c \in (Len(imp) + 1)..Len(cands) : IsPaddingEntry(cands[c], i - 1)

\* the walk met a score of 0 first and then accepted one entry; the staged list
\* is that entry followed by one padding entry
C17_Witness ==
    /\ JustStaged
    /\ cfg.n_samples = 2
    /\ Len(queried) = 2
    /\ queried[1].out.ok /\ queried[1].out.score = 0
    /\ Improving(queried[2])
    /\ LET cands == stagedRound[1].cands
       IN  /\ Len(cands) = 2
           /\ IsAcceptedEntry(cands[1], 0)
           /\ cands[1].cplx.n = queried[2].n
           /\ IsPaddingEntry(cands[2], 0)

\* the order of the phases inside a round, and from one round to the next
PhaseOrder ==
    \/ pc' = pc
    \/ pc = "round" /\ pc' = "sweep"
    \/ pc = "sweep" /\ pc' \in {"walk", "stats"}
    \/ pc = "walk" /\ pc' = "sweep"
    \/ pc = "stats" /\ pc' = "starttrain"
    \/ pc = "starttrain" /\ pc' = "train"
    \/ pc = "train" /\ pc' = "save"
    \/ pc = "save" /\ pc' \in {"round", "done"}

InSweep == pc \in {"sweep", "walk"}

\* parameters at the end of round k, as the checkpoint pair of round k holds them
EndOfRound(k) == IF k < 0 THEN 0 ELSE ckpts[2 * k + 2].params

PhaseState ==
    /\ InSweep => mode = "eval" /\ params = genParams /\ genParams = EndOfRound(r - 1)
    /\ pc \in {"train", "save"} => mode = "train"
    /\ pc \in {"stats", "starttrain"} => i = cfg.n_examples /\ commits = 1
    /\ pc = "sweep" /\ i < cfg.n_examples => commits = 0
    /\ \A k \in 0..(r - 1) : ckpts[2 * k + 1].params = ckpts[2 * k + 2].params
    /\ pc \in {"round", "done"} => params = EndOfRound(r - 1)

\* C18: a round runs evaluation mode, sweep, commit, statistics and log line,
\* training mode, training with flushes, checkpoint, in this order, and the next
\* round starts only after the checkpoint; parameters change only in training,
\* so round r samples with the parameters round r - 1 ended with (the pretrained
\* ones in round 0), and the checkpoint of round r holds the parameters after
\* round r's last flush.
C18_PhaseOrder ==
    /\ []PhaseState
    /\ [][/\ PhaseOrder
          /\ params' # params => pc = "train"
          /\ r' # r => pc = "save" /\ r' = r + 1
          /\ ckpts' # ckpts =>
                /\ pc = "save"
                /\ ckpts' = ckpts \o <<[file |-> "mcatt", iter |-> r, params |-> params],
                                       [file |-> "esm", iter |-> r, params |-> params]>>
          /\ pc = "save" => params' = params]_vars

\* the walk of round 1 runs in evaluation mode with the parameters of the
\* checkpoint of round 0, two flushes after the pretrained ones
C18_Witness ==
    /\ pc = "walk"
    /\ r = 1
    /\ mode = "eval"
    /\ params = 2
    /\ genParams = 2
    /\ ckpts[2].params = 2
    /\ Len(queried) = 1

CeilDiv(x, y) == (x + y - 1) \div y

\* both optimizers have stepped once per flush, in every state
EqualSteps == steps_esm = steps_mcatt /\ steps_esm = Len(flushLog)

\* the flushes of a round whose training loops are over; batch_idx is the
\* number of successful micro-batches of the round
RoundFlushes ==
    /\ Len(flushLog) = CeilDiv(batch_idx, cfg.update_freq)
    /\ grad_esm = 0 /\ grad_mcatt = 0
    /\ AppliedEsm(flushLog, 1) = batch_idx
    /\ AppliedMcatt(flushLog, 1) = batch_idx
    /\ \A k \in 1..Len(flushLog) :
          /\ flushLog[k].esm = flushLog[k].mcatt
          /\ flushLog[k].esm >= 1
          /\ flushLog[k].esm <= cfg.update_freq
          /\ k < Len(flushLog) => flushLog[k].esm = cfg.update_freq

\* C19: the step counter starts a round at 0 and runs through all its epochs;
\* with S successful micro-batches the round makes exactly ceil(S / update_freq)
\* flushes; a flush steps both optimizers once and zeroes both accumulators;
\* each flush applies between 1 and update_freq micro-batches and only the last
\* one of the round may apply fewer than update_freq.
C19_FlushCount ==
    /\ [](EqualSteps /\ (pc = "save" => RoundFlushes))
    /\ [][/\ batch_idx' # batch_idx =>
                \/ pc = "train" /\ pc' = "train" /\ batch_idx' = batch_idx + 1
                \/ pc \in {"starttrain", "save"} /\ batch_idx' = 0
          /\ pc = "starttrain" => batch_idx' = 0
          /\ Len(flushLog') = Len(flushLog) + 1 =>
                /\ steps_esm' = steps_esm + 1
                /\ steps_mcatt' = steps_mcatt + 1
                /\ grad_esm' = 0 /\ grad_mcatt' = 0
                /\ params' = params + 1]_vars

\* two epochs of two micro-batches, all successful, update_freq = 3: the counter
\* reaches 4, one flush in the loops at step 3 and a trailing flush of one
C19_Witness ==
    /\ pc = "save"
    /\ cfg.epoch = 2 /\ cfg.n_batches = 2 /\ cfg.update_freq = 3
    /\ batch_idx = 4
    /\ Len(flushLog) = 2
    /\ flushLog[1].kind = "loop" /\ flushLog[1].step = 3 /\ flushLog[1].esm = 3
    /\ flushLog[2].kind = "trail" /\ flushLog[2].esm = 1
    /\ steps_esm = 2 /\ steps_mcatt = 2

====
